---- MODULE Spec2Model ----
(***************************************************************************)
(* Hybrid (composite) signing pipeline of identity_storage:                *)
(*   generate_method_hybrid  - paired key generation, method insertion,    *)
(*                             paired handle registration, rollback        *)
(*   create_jws              - header assembly, paired handle split,       *)
(*                             OID-prefixed SHA-512 signing input, two     *)
(*                             signatures concatenated                     *)
(* JptCredentialValidator of identity_credential:                          *)
(*   validate / validate_extended - proof phase (verify_proof), then the   *)
(*                             validation units under the fail-fast policy *)
(* Strings whose characters matter (handles, fragments, kids) are          *)
(* sequences of one-character strings.  Every await of the source is one   *)
(* step of the calling process; the synchronous code that follows an       *)
(* await is split into further steps.                                      *)
(***************************************************************************)
EXTENDS Integers, Sequences, FiniteSets, TLC

VARIABLES doc, keyStore, keyIdStore, pc, loc, calls, jpt

vars == <<doc, keyStore, keyIdStore, pc, loc, calls, jpt>>

(***************************************************************************)
(* Bounds and input domains                                                *)
(***************************************************************************)
\* total number of calls (generate_method or create_jws) started in a run
MaxCalls == 3

\* callers; each exclusively owns one document and shares the Storage
Procs == {1, 2}

\* callers that issue calls under the serial specification
SerialProcs == {1}

\* key handles a KeyStore may hand out (opaque strings, some holding '~')
Handles == {<<"a">>, <<"b">>, <<"a", "~">>, <<"c">>}

Some(v) == [some |-> TRUE, val |-> v]

None == [some |-> FALSE, val |-> <<>>]

\* kid a generated classical / post-quantum JWK may carry
KidsT == {None, Some(<<"x">>)}

KidsPQ == {None, Some(<<"y">>)}

\* fragment argument of generate_method
FragmentArgs == {None, Some(<<"k">>), Some(<<"#", "k">>), Some(<<"j">>)}

\* fragment argument of create_jws
FragmentQueries == {<<"k">>, <<"#", "j">>, <<"x", "~", "y">>, <<"#", "z">>}

AlgIds == {"IdMldsa44Ed25519Sha512", "IdMldsa65Ed25519Sha512"}

Scopes == {"VerificationMethod"}

\* payloads handed to create_jws (byte strings)
Payloads == {<<104, 105>>}

\* signatures a KeyStore may return (byte strings)
SigBytes == {<<1>>, <<2, 3>>}

\* JwsSignatureOptions handed to create_jws
JwsOptions ==
  {[kid |-> None, typ |-> None, b64 |-> None, cty |-> None, url |-> None, nonce |-> None,
    custom_header_parameters |-> None, detached_payload |-> FALSE],
   [kid |-> Some(<<"my-kid">>), typ |-> Some(<<"JOSE">>), b64 |-> Some(TRUE),
    cty |-> Some(<<"vc">>), url |-> Some(<<"u">>), nonce |-> Some(<<"n">>),
    custom_header_parameters |-> Some(<<"c">>), detached_payload |-> FALSE],
   [kid |-> None, typ |-> None, b64 |-> Some(FALSE), cty |-> None, url |-> None,
    nonce |-> None, custom_header_parameters |-> None, detached_payload |-> TRUE]}

\* JwsSignatureOptions handed to the credential and presentation JWT calls
JwtOptions ==
  JwsOptions \cup
  {[kid |-> None, typ |-> None, b64 |-> Some(FALSE), cty |-> None, url |-> None,
    nonce |-> None, custom_header_parameters |-> None, detached_payload |-> FALSE],
   [kid |-> None, typ |-> None, b64 |-> None, cty |-> None, url |-> None,
    nonce |-> None, custom_header_parameters |-> None, detached_payload |-> TRUE]}

\* the calls that serialize claims and delegate to create_jws
JwtCalls == {"create_credential_jwt_hybrid", "create_presentation_jwt_hybrid"}

(***************************************************************************)
(* Values                                                                  *)
(***************************************************************************)
NoJwk == [kid |-> None, key |-> <<>>]

\* the public JWK of the key stored under handle h
Jwk(kid, h) == [kid |-> kid, key |-> h]

NoData == [kind |-> "None", alg_id |-> "none", t_jwk |-> NoJwk, pq_jwk |-> NoJwk]

NoId == [did |-> "none", fragment |-> <<>>]

NoMethod == [id |-> NoId, type |-> "none", controller |-> "none", data |-> NoData]

NoDigest == [fragment |-> <<>>, data |-> NoData]

DocDid(p) == IF p = 1 THEN "did:example:1" ELSE "did:example:2"

\* a method with plain JWK data that each document holds from the start
PlainMethod(p) ==
  [id |-> [did |-> DocDid(p), fragment |-> <<"j">>],
   type |-> "JsonWebKey",
   controller |-> DocDid(p),
   data |-> [kind |-> "PublicKeyJwk", alg_id |-> "none",
             t_jwk |-> Jwk(None, <<"j">>), pq_jwk |-> NoJwk]]

(***************************************************************************)
(* Pure helpers of generate_method                                         *)
(***************************************************************************)
starts_with(s, ch) == Len(s) > 0 /\ s[1] = ch

\* Option::or_else
or_else(a, b) == IF a.some THEN a ELSE b

composite_fragment_NoJoin(t_jwk, pq_jwk) == or_else(t_jwk.kid, pq_jwk.kid)

\* t_jwk.kid().or_else(|| pq_jwk.kid()).map(|s| both ? "{}~{}" : s)
composite_fragment(t_jwk, pq_jwk) ==
  LET first == or_else(t_jwk.kid, pq_jwk.kid)
  IN IF first.some
       THEN IF t_jwk.kid.some /\ pq_jwk.kid.some
              THEN Some(t_jwk.kid.val \o <<"~">> \o pq_jwk.kid.val)
              ELSE Some(first.val)
       ELSE None

composite_kid_Swapped(t_key_id, pq_key_id) == pq_key_id \o <<"~">> \o t_key_id

\* KeyId::new(format!("{}~{}", t_key_id, pq_key_id))
composite_kid(t_key_id, pq_key_id) == t_key_id \o <<"~">> \o pq_key_id

\* fragment.or_else(|| composite_fragment.as_deref())
given_fragment(fragment, cf) == or_else(fragment, cf)

normalize_fragment_Always(g) == <<"#">> \o g

\* "Make sure the fragment starts with '#'"
normalize_fragment(g) == IF starts_with(g, "#") THEN g ELSE <<"#">> \o g

\* DIDUrl::join of a fragment that starts with '#': the id keeps the
\* fragment without its '#'
did_url_join(did, fragment) == [did |-> did, fragment |-> Tail(fragment)]

\* DIDUrl rendered as a string
did_url_to_string(id) == <<id.did, "#">> \o id.fragment

\* CompositePublicKey::new(alg_id, t_jwk, pq_jwk)
CompositePublicKey(alg_id, t_jwk, pq_jwk) ==
  [kind |-> "CompositePublicKey", alg_id |-> alg_id, t_jwk |-> t_jwk, pq_jwk |-> pq_jwk]

BuildMethod_PlainType(id, controller, data) ==
  [id |-> id, type |-> "JsonWebKey", controller |-> controller, data |-> data]

\* MethodBuilder::default().id(..).type_(..).controller(..).data(..).build()
BuildMethod(id, controller, data) ==
  [id |-> id, type |-> "CompositeSignaturePublicKey", controller |-> controller, data |-> data]

\* MethodDigest::new: a digest over the method's fragment and key data
MethodDigest(method) == [fragment |-> method.id.fragment, data |-> method.data]

\* CoreDocument::insert_method refuses an id that is already in use
insert_method_ok(d, method) == \A m \in d : m.id # method.id

insert_method(d, method) == d \cup {method}

\* CoreDocument::remove_method
remove_method(d, id) == {m \in d : m.id # id}

\* CoreDocument::resolve_method by a fragment query, with or without '#'
resolve_method(d, did, query) ==
  {m \in d : m.id = did_url_join(did, normalize_fragment(query))}

\* KeyIdStorage as a set of (digest, key id) entries, one per digest
has_key_id(store, digest) == \E e \in store : e.digest = digest

get_key_id(store, digest) == (CHOOSE e \in store : e.digest = digest).key_id

insert_key_id(store, digest, key_id) == store \cup {[digest |-> digest, key_id |-> key_id]}

\* try_undo_key_generation: the error handed on after the delete attempt
try_undo_key_generation(deleted, source) == source

(***************************************************************************)
(* Validator: inputs and values                                            *)
(***************************************************************************)
NoneId == [some |-> FALSE, val |-> NoId]

NoneText == [some |-> FALSE, val |-> "none"]

\* a verification method of an issuer document: its id, controller, the
\* relationships it is bound to and whether its data yields a public JWK
VMethod(did, fragment, controller, scopes, jwk) ==
  [id |-> [did |-> did, fragment |-> fragment], controller |-> controller,
   scopes |-> scopes, jwk |-> jwk]

NoVMethod == VMethod("none", <<>>, "none", {}, FALSE)

NoVDoc == [id |-> "none", methods |-> {}]

VDocA ==
  [id |-> "did:a",
   methods |-> {VMethod("did:a", <<"k">>, "did:a", {"assertionMethod"}, TRUE)}]

\* did:a with a method controlled by did:b
VDocA2 ==
  [id |-> "did:a",
   methods |-> {VMethod("did:a", <<"k">>, "did:b", {"assertionMethod"}, TRUE)}]

\* did:b whose method data yields no public JWK
VDocB ==
  [id |-> "did:b",
   methods |-> {VMethod("did:b", <<"k">>, "did:b", {"assertionMethod"}, FALSE)}]

\* issuer: &DOC of validate
IssuerDocs == {VDocA, VDocA2, VDocB}

\* issuers: &[DOC] of validate_extended
IssuerLists == {<<>>, <<VDocB>>, <<VDocB, VDocA>>, <<VDocA2, VDocB>>}

\* options.verification_options.method_id
MethodIdOptions ==
  {NoneId,
   [some |-> TRUE, val |-> [did |-> "did:a", fragment |-> <<"k">>]],
   [some |-> TRUE, val |-> [did |-> "did:c", fragment |-> <<"k">>]]}

\* options.verification_options.method_scope
MethodScopeOptions == {NoneText, [some |-> TRUE, val |-> "authentication"]}

\* kid of the protected header of the decoded JWP
HeaderKids ==
  {None, Some(<<"not a DID Url">>), Some(<<"did:a", "#", "k">>), Some(<<"did:a", "#", "z">>),
   Some(<<"did:b", "#", "k">>), Some(<<"did:c", "#", "k">>)}

\* issuer of the decoded credential; "invalid" is no DID
CredentialIssuers == {"did:a", "did:b", "invalid"}

FailFasts == {"FirstError", "AllErrors"}

\* the validation units in the order of the chain, the last one only with
\* the revocation-bitmap feature
AllUnits == <<"issuance_date", "expiry_date", "structure", "subject_holder", "status">>

UnitNames == {AllUnits[i] : i \in 1..Len(AllUnits)}

VError(kind, message, signer_ctx) ==
  [kind |-> kind, message |-> message, signer_ctx |-> signer_ctx]

NoVOptions ==
  [method_id |-> NoneId, method_scope |-> NoneText, subject_holder_relationship |-> FALSE]

NoCredential == [issuer |-> "none", failing |-> {}]

NoVal ==
  [pc |-> "idle", entry |-> "none", fail_fast |-> "none", revocation |-> FALSE,
   options |-> NoVOptions, issuers |-> <<>>,
   kid |-> None, method_id |-> NoId, issuer |-> NoVDoc, method |-> NoVMethod,
   credential |-> NoCredential,
   steps |-> <<>>, failed |-> "none", evaluated |-> <<>>, errors |-> <<>>,
   result |-> "none"]

(***************************************************************************)
(* Per-call state                                                          *)
(***************************************************************************)
NoSnapshot == [doc |-> {}, keyStore |-> {}, keyIdStore |-> {}]

NoOptions ==
  [kid |-> None, typ |-> None, b64 |-> None, cty |-> None, url |-> None, nonce |-> None,
   custom_header_parameters |-> None, detached_payload |-> FALSE]

NoHeader ==
  [alg |-> "none", custom |-> None, kid |-> None, b64 |-> None, crit |-> None, typ |-> None,
   cty |-> None, url |-> None, nonce |-> None]

NoCall == [key_id |-> <<>>, jwk |-> NoJwk, data |-> <<>>]

NoJws == [header |-> NoHeader, payload |-> <<>>, detached |-> FALSE, signature |-> <<>>]

NoLoc ==
  [op |-> "none",
   \* generate_method
   alg_id |-> "none", fragment_arg |-> None, scope |-> "none",
   t_key_id |-> <<>>, t_jwk |-> NoJwk, pq_key_id |-> <<>>, pq_jwk |-> NoJwk,
   composite_kid |-> <<>>, fragment |-> <<>>,
   method |-> NoMethod, method_digest |-> NoDigest,
   \* create_jws
   query |-> <<>>, payload |-> <<>>, options |-> NoOptions, header |-> NoHeader,
   key_id |-> <<>>, encoder_input |-> <<>>, signing_input |-> <<>>,
   sign_call |-> NoCall, pq_sign_call |-> NoCall,
   signature_t |-> <<>>, signature_pq |-> <<>>,
   \* create_credential_jwt_hybrid / create_presentation_jwt_hybrid
   wrapper |-> "none", jwt_result |-> "none", jwt_error |-> "none", jwt |-> NoJws,
   \* outcome
   result |-> "none", error |-> "none", ret_fragment |-> <<>>, jws |-> NoJws,
   \* history of the call
   failed |-> "none", undo_failed |-> FALSE, trace |-> <<>>, pre |-> NoSnapshot]

Snapshot == [doc |-> doc, keyStore |-> keyStore, keyIdStore |-> keyIdStore]

Init ==
  /\ doc = [p \in Procs |-> {PlainMethod(p)}]
  /\ keyStore = {}
  /\ keyIdStore = {}
  /\ pc = [p \in Procs |-> "idle"]
  /\ loc = [p \in Procs |-> NoLoc]
  /\ calls = 0
  /\ jpt = NoVal

\* the call of p ends with Err(error), raised at phase `failed`
Fail(p, L, error, failed) ==
  /\ loc' = [loc EXCEPT ![p] = [L EXCEPT !.result = "err", !.error = error, !.failed = failed]]
  /\ pc' = [pc EXCEPT ![p] = IF L.op = "generate_method" THEN "gm_ret" ELSE "cj_ret"]

(***************************************************************************)
(* generate_method_hybrid                                                  *)
(***************************************************************************)
StartGenerate(p) ==
  /\ pc[p] = "idle"
  /\ calls < MaxCalls
  /\ \E alg_id \in AlgIds, fragment \in FragmentArgs, scope \in Scopes :
       loc' = [loc EXCEPT ![p] = [NoLoc EXCEPT !.op = "generate_method", !.alg_id = alg_id,
                                               !.fragment_arg = fragment, !.scope = scope,
                                               !.pre = Snapshot]]
  /\ pc' = [pc EXCEPT ![p] = "gm_generate"]
  /\ calls' = calls + 1
  /\ UNCHANGED <<doc, keyStore, keyIdStore, jpt>>

\* the key ids a KeyStore may hand out: new ones, which neither name a stored
\* key nor are still held by a call in progress
FreshHandles ==
  Handles \ (keyStore \cup {loc[q].t_key_id : q \in Procs} \cup {loc[q].pq_key_id : q \in Procs})

\* K::generate(..).await.map_err(Error::KeyStorageError)?
Generate(p) ==
  /\ pc[p] = "gm_generate"
  /\ LET L == [loc[p] EXCEPT !.trace = Append(@, "generate")]
     IN \/ \E h \in FreshHandles, kid \in KidsT :
             /\ keyStore' = keyStore \cup {h}
             /\ loc' = [loc EXCEPT ![p] = [L EXCEPT !.t_key_id = h, !.t_jwk = Jwk(kid, h)]]
             /\ pc' = [pc EXCEPT ![p] = "gm_generate_pq"]
        \/ /\ Fail(p, L, "KeyStorageError", "generate")
           /\ UNCHANGED keyStore
  /\ UNCHANGED <<doc, keyIdStore, calls, jpt>>

\* K::generate_pq_key(..).await.map_err(Error::KeyStorageError)?
GeneratePq(p) ==
  /\ pc[p] = "gm_generate_pq"
  /\ LET L == [loc[p] EXCEPT !.trace = Append(@, "generate_pq_key")]
     IN \/ \E h \in FreshHandles, kid \in KidsPQ :
             /\ keyStore' = keyStore \cup {h}
             /\ loc' = [loc EXCEPT ![p] = [L EXCEPT !.pq_key_id = h, !.pq_jwk = Jwk(kid, h)]]
             /\ pc' = [pc EXCEPT ![p] = "gm_build"]
        \/ /\ Fail(p, L, "KeyStorageError", "generate_pq_key")
           /\ UNCHANGED keyStore
  /\ UNCHANGED <<doc, keyIdStore, calls, jpt>>

\* fragment resolution, DID URL construction and method build
BuildStep(p) ==
  /\ pc[p] = "gm_build"
  /\ LET L0 == loc[p]
         cf == composite_fragment(L0.t_jwk, L0.pq_jwk)
         g == given_fragment(L0.fragment_arg, cf)
         L1 == [L0 EXCEPT !.composite_kid = composite_kid(L0.t_key_id, L0.pq_key_id)]
         fragment == normalize_fragment(g.val)
         L2 == [L1 EXCEPT !.fragment = fragment]
         id == did_url_join(DocDid(p), fragment)
         data == CompositePublicKey(L0.alg_id, L0.t_jwk, L0.pq_jwk)
     IN \/ /\ ~g.some
           /\ Fail(p, L1, "VerificationMethodConstructionError", "fragment")
        \/ /\ g.some
           /\ Fail(p, L2, "VerificationMethodConstructionError", "did_url")
        \/ /\ g.some
           /\ loc' = [loc EXCEPT ![p] = [L2 EXCEPT !.error = "VerificationMethodConstructionError",
                                                   !.failed = "build"]]
           /\ pc' = [pc EXCEPT ![p] = "gm_undo_t"]
        \/ /\ g.some
           /\ loc' = [loc EXCEPT ![p] = [L2 EXCEPT !.method = BuildMethod(id, DocDid(p), data)]]
           /\ pc' = [pc EXCEPT ![p] = "gm_insert_method"]
  /\ UNCHANGED <<doc, keyStore, keyIdStore, calls, jpt>>

InsertMethodError_Unmapped == "MethodInsertionError"

\* .map_err(|_| Error::FragmentAlreadyExists)
InsertMethodError == "FragmentAlreadyExists"

\* method digest, returned fragment and document insertion
InsertMethodStep(p) ==
  /\ pc[p] = "gm_insert_method"
  /\ LET L0 == loc[p]
         L1 == [L0 EXCEPT !.method_digest = MethodDigest(L0.method),
                          !.ret_fragment = L0.method.id.fragment]
     IN \/ /\ Fail(p, L0, "MethodDigestConstructionError", "digest")
           /\ UNCHANGED doc
        \/ /\ insert_method_ok(doc[p], L0.method)
           /\ doc' = [doc EXCEPT ![p] = insert_method(@, L0.method)]
           /\ loc' = [loc EXCEPT ![p] = [L1 EXCEPT !.trace = Append(@, "insert_method")]]
           /\ pc' = [pc EXCEPT ![p] = "gm_insert_key_id"]
        \/ /\ ~insert_method_ok(doc[p], L0.method)
           /\ loc' = [loc EXCEPT ![p] = [L1 EXCEPT !.trace = Append(@, "insert_method"),
                                                   !.error = InsertMethodError,
                                                   !.failed = "insert_method"]]
           /\ pc' = [pc EXCEPT ![p] = "gm_undo_t"]
           /\ UNCHANGED doc
  /\ UNCHANGED <<keyStore, keyIdStore, calls, jpt>>

InsertKeyIdError_Wrong == "KeyStorageError"

\* .map_err(Error::KeyIdStorageError)
InsertKeyIdError == "KeyIdStorageError"

DocAfterKeyIdFailure_Kept(d, method_id) == d

\* let _ = document.remove_method(&method_id);
DocAfterKeyIdFailure(d, method_id) == remove_method(d, method_id)

InsertKeyIdStep_WritesThenFails(p) ==
  /\ pc[p] = "gm_insert_key_id"
  /\ LET L == [loc[p] EXCEPT !.trace = Append(@, "insert_key_id")]
     IN \/ /\ ~has_key_id(keyIdStore, L.method_digest)
           /\ keyIdStore' = insert_key_id(keyIdStore, L.method_digest, L.composite_kid)
           /\ loc' = [loc EXCEPT ![p] = [L EXCEPT !.result = "ok"]]
           /\ pc' = [pc EXCEPT ![p] = "gm_ret"]
           /\ UNCHANGED doc
        \/ /\ doc' = [doc EXCEPT ![p] = DocAfterKeyIdFailure(@, L.method.id)]
           /\ keyIdStore' = insert_key_id(keyIdStore, L.method_digest, L.composite_kid)
           /\ loc' = [loc EXCEPT ![p] = [L EXCEPT !.trace = Append(@, "remove_method"),
                                                  !.error = InsertKeyIdError,
                                                  !.failed = "insert_key_id"]]
           /\ pc' = [pc EXCEPT ![p] = "gm_undo_t"]
  /\ UNCHANGED <<keyStore, calls, jpt>>

\* KeyIdStorage::insert_key_id(..).await and its error branch
InsertKeyIdStep(p) ==
  /\ pc[p] = "gm_insert_key_id"
  /\ LET L == [loc[p] EXCEPT !.trace = Append(@, "insert_key_id")]
     IN \/ /\ ~has_key_id(keyIdStore, L.method_digest)
           /\ keyIdStore' = insert_key_id(keyIdStore, L.method_digest, L.composite_kid)
           /\ loc' = [loc EXCEPT ![p] = [L EXCEPT !.result = "ok"]]
           /\ pc' = [pc EXCEPT ![p] = "gm_ret"]
           /\ UNCHANGED doc
        \/ /\ doc' = [doc EXCEPT ![p] = DocAfterKeyIdFailure(@, L.method.id)]
           /\ loc' = [loc EXCEPT ![p] = [L EXCEPT !.trace = Append(@, "remove_method"),
                                                  !.error = InsertKeyIdError,
                                                  !.failed = "insert_key_id"]]
           /\ pc' = [pc EXCEPT ![p] = "gm_undo_t"]
           /\ UNCHANGED keyIdStore
  /\ UNCHANGED <<keyStore, calls, jpt>>

UndoT_DeletesPq(p) ==
  /\ pc[p] = "gm_undo_t"
  /\ LET L == [loc[p] EXCEPT !.trace = Append(@, "delete_t")]
     IN \/ /\ keyStore' = keyStore \ {L.pq_key_id}
           /\ loc' = [loc EXCEPT ![p] = [L EXCEPT !.error = try_undo_key_generation(TRUE, @)]]
        \/ /\ UNCHANGED keyStore
           /\ loc' = [loc EXCEPT ![p] = [L EXCEPT !.error = try_undo_key_generation(FALSE, @),
                                                  !.undo_failed = TRUE]]
  /\ pc' = [pc EXCEPT ![p] = "gm_undo_pq"]
  /\ UNCHANGED <<doc, keyIdStore, calls, jpt>>

\* try_undo_key_generation(storage, &t_key_id, error).await
UndoT(p) ==
  /\ pc[p] = "gm_undo_t"
  /\ LET L == [loc[p] EXCEPT !.trace = Append(@, "delete_t")]
     IN \/ /\ keyStore' = keyStore \ {L.t_key_id}
           /\ loc' = [loc EXCEPT ![p] = [L EXCEPT !.error = try_undo_key_generation(TRUE, @)]]
        \/ /\ UNCHANGED keyStore
           /\ loc' = [loc EXCEPT ![p] = [L EXCEPT !.error = try_undo_key_generation(FALSE, @),
                                                  !.undo_failed = TRUE]]
  /\ pc' = [pc EXCEPT ![p] = "gm_undo_pq"]
  /\ UNCHANGED <<doc, keyIdStore, calls, jpt>>

UndoPq_ClearsStore(p) ==
  /\ pc[p] = "gm_undo_pq"
  /\ LET L == [loc[p] EXCEPT !.trace = Append(@, "delete_pq"), !.result = "err"]
     IN \/ /\ keyStore' = {}
           /\ loc' = [loc EXCEPT ![p] = [L EXCEPT !.error = try_undo_key_generation(TRUE, @)]]
        \/ /\ UNCHANGED keyStore
           /\ loc' = [loc EXCEPT ![p] = [L EXCEPT !.error = try_undo_key_generation(FALSE, @),
                                                  !.undo_failed = TRUE]]
  /\ pc' = [pc EXCEPT ![p] = "gm_ret"]
  /\ UNCHANGED <<doc, keyIdStore, calls, jpt>>

\* try_undo_key_generation(storage, &pq_key_id, error).await; return Err(error)
UndoPq(p) ==
  /\ pc[p] = "gm_undo_pq"
  /\ LET L == [loc[p] EXCEPT !.trace = Append(@, "delete_pq"), !.result = "err"]
     IN \/ /\ keyStore' = keyStore \ {L.pq_key_id}
           /\ loc' = [loc EXCEPT ![p] = [L EXCEPT !.error = try_undo_key_generation(TRUE, @)]]
        \/ /\ UNCHANGED keyStore
           /\ loc' = [loc EXCEPT ![p] = [L EXCEPT !.error = try_undo_key_generation(FALSE, @),
                                                  !.undo_failed = TRUE]]
  /\ pc' = [pc EXCEPT ![p] = "gm_ret"]
  /\ UNCHANGED <<doc, keyIdStore, calls, jpt>>

\* the caller takes the result of generate_method
ReturnGenerate(p) ==
  /\ pc[p] = "gm_ret"
  /\ pc' = [pc EXCEPT ![p] = "idle"]
  /\ loc' = [loc EXCEPT ![p] = NoLoc]
  /\ UNCHANGED <<doc, keyStore, keyIdStore, calls, jpt>>

GenerateMethod(p) ==
  \/ Generate(p) \/ GeneratePq(p) \/ BuildStep(p) \/ InsertMethodStep(p)
  \/ InsertKeyIdStep(p) \/ UndoT(p) \/ UndoPq(p) \/ ReturnGenerate(p)

(***************************************************************************)
(* create_jws                                                              *)
(***************************************************************************)
\* CompositeAlgId::name
AlgName(alg_id) ==
  IF alg_id = "IdMldsa44Ed25519Sha512" THEN "id-MLDSA44-Ed25519-SHA512"
  ELSE IF alg_id = "IdMldsa65Ed25519Sha512" THEN "id-MLDSA65-Ed25519-SHA512"
  ELSE "none"

\* str::parse::<JwsAlgorithm>
ParseJwsAlgorithm(name) ==
  IF name = "id-MLDSA44-Ed25519-SHA512" THEN Some("IdMldsa44Ed25519Sha512")
  ELSE IF name = "id-MLDSA65-Ed25519-SHA512" THEN Some("IdMldsa65Ed25519Sha512")
  ELSE [some |-> FALSE, val |-> "none"]

BuildHeader_KidFromOptionsOnly(alg, method, options) ==
  [alg |-> alg,
   custom |-> options.custom_header_parameters,
   kid |-> options.kid,
   b64 |-> IF options.b64.some /\ ~options.b64.val THEN Some(FALSE) ELSE None,
   crit |-> IF options.b64.some /\ ~options.b64.val THEN Some(<<"b64">>) ELSE None,
   typ |-> options.typ,
   cty |-> options.cty,
   url |-> options.url,
   nonce |-> options.nonce]

BuildHeader_B64WheneverSet(alg, method, options) ==
  [alg |-> alg,
   custom |-> options.custom_header_parameters,
   kid |-> IF options.kid.some THEN options.kid ELSE Some(did_url_to_string(method.id)),
   b64 |-> IF options.b64.some THEN Some(options.b64.val) ELSE None,
   crit |-> IF options.b64.some THEN Some(<<"b64">>) ELSE None,
   typ |-> IF options.typ.some THEN options.typ ELSE Some(<<"JWT">>),
   cty |-> options.cty,
   url |-> options.url,
   nonce |-> options.nonce]

\* "Create JWS header in accordance with options."
BuildHeader(alg, method, options) ==
  [alg |-> alg,
   custom |-> options.custom_header_parameters,
   kid |-> IF options.kid.some THEN options.kid ELSE Some(did_url_to_string(method.id)),
   b64 |-> IF options.b64.some /\ ~options.b64.val THEN Some(FALSE) ELSE None,
   crit |-> IF options.b64.some /\ ~options.b64.val THEN Some(<<"b64">>) ELSE None,
   typ |-> IF options.typ.some THEN options.typ ELSE Some(<<"JWT">>),
   cty |-> options.cty,
   url |-> options.url,
   nonce |-> options.nonce]

Positions(s, ch) == {i \in 1..Len(s) : s[i] = ch}

Min(S) == CHOOSE i \in S : \A j \in S : i <= j

\* str::split_once("~"): the parts before and after the first '~'
split_once(s, ch) ==
  IF Positions(s, ch) = {}
    THEN [some |-> FALSE, left |-> <<>>, right |-> <<>>]
    ELSE LET i == Min(Positions(s, ch))
         IN [some |-> TRUE, left |-> SubSeq(s, 1, i - 1), right |-> SubSeq(s, i + 1, Len(s))]

SplitKeyIds_Swapped(v) == <<v.right, v.left>>

\* .map(|v| (KeyId::new(v.0), KeyId::new(v.1)))
SplitKeyIds(v) == <<v.left, v.right>>

\* CompactJwsEncoder::signing_input: the encoded header and payload
EncoderSigningInput(header, payload) == [header |-> header, payload |-> payload]

OptLen(o) == IF o.some THEN 1 + Len(o.val) ELSE 0

SumBytes(s) == IF Len(s) = 0 THEN 0 ELSE IF Len(s) = 1 THEN s[1] ELSE s[1] + s[2]

\* Sha512::digest: 64 bytes that depend on the whole input
Sha512(m) ==
  LET seed == (IF m.header.alg = "IdMldsa44Ed25519Sha512" THEN 17 ELSE 91)
              + 3 * OptLen(m.header.kid) + 5 * OptLen(m.header.typ)
              + 7 * OptLen(m.header.crit) + 11 * OptLen(m.header.cty)
              + SumBytes(m.payload)
  IN [i \in 1..64 |-> (seed + 13 * i) % 256]

OidPrefix_SameLastByte(alg) ==
  <<6, 11, 96, 134, 72, 1, 134, 250, 107, 80, 8, 1, 3>>

\* the DER OID bytes of the two match arms (0x06 0x0B 0x60 ... 0x03 / 0x0A)
OidPrefix(alg) ==
  IF alg = "IdMldsa44Ed25519Sha512"
    THEN <<6, 11, 96, 134, 72, 1, 134, 250, 107, 80, 8, 1, 3>>
    ELSE <<6, 11, 96, 134, 72, 1, 134, 250, 107, 80, 8, 1, 10>>

\* input = OID bytes, extended by Sha512::digest(jws_encoder.signing_input())
SigningInput(alg, encoder_input) == OidPrefix(alg) \o Sha512(encoder_input)

ConcatSignatures_PqFirst(signature_t, signature_pq) == signature_pq \o signature_t

\* [signature_t, signature_pq].concat()
ConcatSignatures(signature_t, signature_pq) == signature_t \o signature_pq

\* .map_err(Error::KeyStorageError) of sign and pq_sign
SignError == "KeyStorageError"

StartCreateJws(p) ==
  /\ pc[p] = "idle"
  /\ calls < MaxCalls
  /\ \E query \in FragmentQueries, payload \in Payloads, options \in JwsOptions :
       loc' = [loc EXCEPT ![p] = [NoLoc EXCEPT !.op = "create_jws", !.query = query,
                                               !.payload = payload, !.options = options,
                                               !.pre = Snapshot]]
  /\ pc' = [pc EXCEPT ![p] = "cj_resolve"]
  /\ calls' = calls + 1
  /\ UNCHANGED <<doc, keyStore, keyIdStore, jpt>>

IsComposite_Any(method) == TRUE

\* let MethodData::CompositePublicKey(ref composite) = method.data() else { .. }
IsComposite(method) == method.data.kind = "CompositePublicKey"

\* method resolution, algorithm, header and method digest
ResolveStep(p) ==
  /\ pc[p] = "cj_resolve"
  /\ LET L0 == loc[p]
         found == resolve_method(doc[p], DocDid(p), L0.query)
         method == CHOOSE m \in found : TRUE
         alg == ParseJwsAlgorithm(AlgName(method.data.alg_id))
         L1 == [L0 EXCEPT !.method = method, !.alg_id = method.data.alg_id,
                          !.t_jwk = method.data.t_jwk, !.pq_jwk = method.data.pq_jwk]
         L2 == [L1 EXCEPT !.header = BuildHeader(alg.val, method, L0.options)]
     IN \/ /\ found = {}
           /\ Fail(p, L0, "MethodNotFound", "resolve_method")
        \/ /\ found # {}
           /\ ~IsComposite(method)
           /\ Fail(p, [L0 EXCEPT !.method = method], "NotCompositePublicKey", "method_data")
        \/ /\ found # {}
           /\ IsComposite(method)
           /\ IF ~alg.some
                THEN Fail(p, L1, "InvalidJwsAlgorithm", "alg")
                ELSE \/ Fail(p, L2, "MethodDigestConstructionError", "digest")
                     \/ /\ loc' = [loc EXCEPT ![p] =
                                     [L2 EXCEPT !.method_digest = MethodDigest(method)]]
                        /\ pc' = [pc EXCEPT ![p] = "cj_get_key_id"]
  /\ UNCHANGED <<doc, keyStore, keyIdStore, calls, jpt>>

\* KeyIdStorage::get_key_id(..).await.map_err(Error::KeyIdStorageError)?
GetKeyIdStep(p) ==
  /\ pc[p] = "cj_get_key_id"
  /\ LET L == [loc[p] EXCEPT !.trace = Append(@, "get_key_id")]
     IN \/ /\ has_key_id(keyIdStore, L.method_digest)
           /\ loc' = [loc EXCEPT ![p] =
                        [L EXCEPT !.key_id = get_key_id(keyIdStore, L.method_digest)]]
           /\ pc' = [pc EXCEPT ![p] = "cj_encode"]
        \/ Fail(p, L, "KeyIdStorageError", "get_key_id")
  /\ UNCHANGED <<doc, keyStore, keyIdStore, calls, jpt>>

\* split of the paired handle, encoder and signing input
EncodeStep(p) ==
  /\ pc[p] = "cj_encode"
  /\ LET L0 == loc[p]
         v == split_once(L0.key_id, "~")
         ids == SplitKeyIds(v)
         L1 == [L0 EXCEPT !.t_key_id = ids[1], !.pq_key_id = ids[2]]
         enc == EncoderSigningInput(L0.header, L0.payload)
         L2 == [L1 EXCEPT !.encoder_input = enc,
                          !.signing_input = SigningInput(L0.header.alg, enc)]
     IN IF ~v.some
          THEN Fail(p, L0, "KeyIdStorageError", "split_once")
          ELSE \/ Fail(p, L1, "EncodingError", "encoder")
               \/ /\ loc' = [loc EXCEPT ![p] = L2]
                  /\ pc' = [pc EXCEPT ![p] = "cj_sign"]
  /\ UNCHANGED <<doc, keyStore, keyIdStore, calls, jpt>>

\* K::sign(key_storage, &t_key_id, &signing_input, t_jwk).await
SignStep(p) ==
  /\ pc[p] = "cj_sign"
  /\ LET L == [loc[p] EXCEPT !.trace = Append(@, "sign"),
                             !.sign_call = [key_id |-> loc[p].t_key_id, jwk |-> loc[p].t_jwk,
                                            data |-> loc[p].signing_input]]
     IN \/ /\ L.t_key_id \in keyStore
           /\ \E sig \in SigBytes :
                loc' = [loc EXCEPT ![p] = [L EXCEPT !.signature_t = sig]]
           /\ pc' = [pc EXCEPT ![p] = "cj_pq_sign"]
        \/ Fail(p, L, SignError, "sign")
  /\ UNCHANGED <<doc, keyStore, keyIdStore, calls, jpt>>

PqSignFailure_Partial(p, L) ==
  /\ loc' = [loc EXCEPT ![p] =
               [L EXCEPT !.result = "ok", !.failed = "pq_sign",
                         !.jws = [header |-> L.header, payload |-> L.payload,
                                  detached |-> L.options.detached_payload,
                                  signature |-> L.signature_t]]]
  /\ pc' = [pc EXCEPT ![p] = "cj_ret"]

\* the `?` after pq_sign(..).await.map_err(Error::KeyStorageError)
PqSignFailure(p, L) == Fail(p, L, SignError, "pq_sign")

\* K::pq_sign(key_storage, &pq_key_id, &signing_input, pq_jwk).await, then
\* the concatenated signature goes into the JWS
PqSignStep(p) ==
  /\ pc[p] = "cj_pq_sign"
  /\ LET L == [loc[p] EXCEPT !.trace = Append(@, "pq_sign"),
                             !.pq_sign_call = [key_id |-> loc[p].pq_key_id, jwk |-> loc[p].pq_jwk,
                                               data |-> loc[p].signing_input]]
     IN \/ /\ L.pq_key_id \in keyStore
           /\ \E sig \in SigBytes :
                loc' = [loc EXCEPT ![p] =
                          [L EXCEPT !.signature_pq = sig,
                                    !.result = "ok",
                                    !.jws = [header |-> L.header, payload |-> L.payload,
                                             detached |-> L.options.detached_payload,
                                             signature |-> ConcatSignatures(L.signature_t, sig)]]]
           /\ pc' = [pc EXCEPT ![p] = "cj_ret"]
        \/ PqSignFailure(p, L)
  /\ UNCHANGED <<doc, keyStore, keyIdStore, calls, jpt>>

\* the caller takes the result of create_jws
ReturnCreateJws(p) ==
  /\ pc[p] = "cj_ret"
  /\ loc[p].wrapper = "none"
  /\ pc' = [pc EXCEPT ![p] = "idle"]
  /\ loc' = [loc EXCEPT ![p] = NoLoc]
  /\ UNCHANGED <<doc, keyStore, keyIdStore, calls, jpt>>

CreateJws(p) ==
  \/ ResolveStep(p) \/ GetKeyIdStep(p) \/ EncodeStep(p)
  \/ SignStep(p) \/ PqSignStep(p) \/ ReturnCreateJws(p)

(***************************************************************************)
(* create_credential_jwt_hybrid and create_presentation_jwt_hybrid         *)
(***************************************************************************)
\* if options.detached_payload { return Err(Error::EncodingError(..)) }
DetachedRejected(options) == options.detached_payload

B64Rejected_Never(options) == FALSE

\* if !options.b64.unwrap_or(true) { return Err(Error::EncodingError(..)) }
B64Rejected(options) == ~(IF options.b64.some THEN options.b64.val ELSE TRUE)

\* credential.serialize_jwt(..) / presentation.serialize_jwt(..) as bytes
SerializeJwt(call) == IF call = "create_credential_jwt_hybrid" THEN <<118, 99>> ELSE <<118, 112>>

\* the JWT call of p ends with Err(error), raised at phase `failed`
JwtFail(p, L, error, failed) ==
  /\ loc' = [loc EXCEPT ![p] = [L EXCEPT !.jwt_result = "err", !.jwt_error = error,
                                         !.failed = failed]]
  /\ pc' = [pc EXCEPT ![p] = "jwt_ret"]

StartCreateJwt(p) ==
  /\ pc[p] = "idle"
  /\ calls < MaxCalls
  /\ \E call \in JwtCalls, query \in FragmentQueries, options \in JwtOptions :
       loc' = [loc EXCEPT ![p] = [NoLoc EXCEPT !.op = call, !.wrapper = call, !.query = query,
                                               !.options = options, !.pre = Snapshot]]
  /\ pc' = [pc EXCEPT ![p] = "jwt_check"]
  /\ calls' = calls + 1
  /\ UNCHANGED <<doc, keyStore, keyIdStore, jpt>>

\* the two option checks, serialization, and the call of create_jws
JwtCheckStep(p) ==
  /\ pc[p] = "jwt_check"
  /\ LET L0 == loc[p]
         L1 == [L0 EXCEPT !.trace = Append(@, "serialize_jwt")]
     IN IF DetachedRejected(L0.options)
          THEN JwtFail(p, L0, "EncodingError", "detached_payload")
          ELSE IF B64Rejected(L0.options)
            THEN JwtFail(p, L0, "EncodingError", "b64")
            ELSE \/ JwtFail(p, L1, "ClaimsSerializationError", "serialize_jwt")
                 \/ /\ loc' = [loc EXCEPT ![p] =
                                 [L1 EXCEPT !.trace = Append(@, "create_jws"),
                                            !.op = "create_jws",
                                            !.payload = SerializeJwt(L0.wrapper)]]
                    /\ pc' = [pc EXCEPT ![p] = "cj_resolve"]
  /\ UNCHANGED <<doc, keyStore, keyIdStore, calls, jpt>>

\* .await.map(|jws| Jwt::new(jws.into()))
JwtMapStep(p) ==
  /\ pc[p] = "cj_ret"
  /\ loc[p].wrapper # "none"
  /\ loc' = [loc EXCEPT ![p] = [@ EXCEPT !.op = loc[p].wrapper,
                                         !.jwt_result = loc[p].result,
                                         !.jwt_error = loc[p].error,
                                         !.jwt = loc[p].jws]]
  /\ pc' = [pc EXCEPT ![p] = "jwt_ret"]
  /\ UNCHANGED <<doc, keyStore, keyIdStore, calls, jpt>>

\* the caller takes the result of the JWT call
ReturnCreateJwt(p) ==
  /\ pc[p] = "jwt_ret"
  /\ pc' = [pc EXCEPT ![p] = "idle"]
  /\ loc' = [loc EXCEPT ![p] = NoLoc]
  /\ UNCHANGED <<doc, keyStore, keyIdStore, calls, jpt>>

CreateJwt(p) == JwtCheckStep(p) \/ JwtMapStep(p) \/ ReturnCreateJwt(p)

\* no call of another caller is in progress
Serial == \A q \in Procs : pc[q] = "idle"

Next ==
  \E p \in SerialProcs :
    \/ Serial /\ StartGenerate(p)
    \/ Serial /\ StartCreateJws(p)
    \/ Serial /\ StartCreateJwt(p)
    \/ GenerateMethod(p)
    \/ CreateJws(p)
    \/ CreateJwt(p)

Spec == Init /\ [][Next]_vars

(***************************************************************************)
(* Properties of generate_method                                           *)
(***************************************************************************)
HasTilde(s) == Positions(s, "~") # {}

InTrace(L, name) == \E i \in 1..Len(L.trace) : L.trace[i] = name

GenerateReturned(p) == pc[p] = "gm_ret" /\ loc[p].op = "generate_method"

GenerateFailedAt(p, phases) ==
  GenerateReturned(p) /\ loc[p].result = "err" /\ loc[p].failed \in phases

\* C1: a generate_method call that returns Ok(fragment) leaves a method with
\* that fragment in the document, of type CompositeSignaturePublicKey, holding
\* the CompositePublicKey of the two keys generated by the call; KeyHandleStore
\* maps that method's fingerprint to t_handle~pq_handle and both handles are
\* in KeyStore.
C1_SuccessLeavesMethodAndHandle ==
  \A p \in Procs :
    (GenerateReturned(p) /\ loc[p].result = "ok") =>
      LET L == loc[p]
          found == {m \in doc[p] : m.id.fragment = L.ret_fragment}
      IN /\ Cardinality(found) = 1
         /\ \A m \in found :
              /\ m.type = "CompositeSignaturePublicKey"
              /\ m.data = [kind |-> "CompositePublicKey", alg_id |-> L.alg_id,
                           t_jwk |-> L.t_jwk, pq_jwk |-> L.pq_jwk]
              /\ L.t_jwk.key = L.t_key_id
              /\ L.pq_jwk.key = L.pq_key_id
              /\ has_key_id(keyIdStore, MethodDigest(m))
              /\ \A e \in keyIdStore :
                   e.digest = MethodDigest(m) =>
                     e.key_id = L.t_key_id \o <<"~">> \o L.pq_key_id
         /\ L.t_key_id \in keyStore
         /\ L.pq_key_id \in keyStore
         /\ L.t_key_id # L.pq_key_id

C1_Witness ==
  \E p \in Procs :
    /\ GenerateReturned(p)
    /\ loc[p].result = "ok"
    /\ loc[p].t_key_id # <<>>
    /\ loc[p].pq_key_id # <<>>
    /\ Cardinality(doc[p]) = 2

AllPhases ==
  {"generate", "generate_pq_key", "fragment", "did_url", "build", "digest",
   "insert_method", "insert_key_id"}

\* C2: a generate_method call that returns an error, at whatever phase, leaves
\* the document with exactly the methods and KeyHandleStore with exactly the
\* mappings they held before the call.
C2_FailureLeavesDocumentAndHandles ==
  \A p \in Procs :
    (GenerateReturned(p) /\ loc[p].result = "err") =>
      /\ loc[p].failed \in AllPhases
      /\ doc[p] = loc[p].pre.doc[p]
      /\ keyIdStore = loc[p].pre.keyIdStore

C2_Witness ==
  \E p \in Procs :
    /\ GenerateFailedAt(p, {"insert_key_id"})
    /\ InTrace(loc[p], "insert_method")
    /\ InTrace(loc[p], "remove_method")
    /\ loc[p].method # NoMethod

\* C3: a generate_method call that returns an error at a phase after the
\* classical key generation leaves KeyStore with exactly the keys it held
\* before the call, provided no KeyStore delete failed.
C3_FailureRestoresKeyStore ==
  \A p \in Procs :
    (/\ GenerateFailedAt(p, AllPhases \ {"generate"})
     /\ ~loc[p].undo_failed) =>
      keyStore = loc[p].pre.keyStore

C6_Resolved(L) ==
  IF L.fragment_arg.some THEN L.fragment_arg
  ELSE IF L.t_jwk.kid.some /\ L.pq_jwk.kid.some
    THEN Some(L.t_jwk.kid.val \o <<"~">> \o L.pq_jwk.kid.val)
  ELSE IF L.t_jwk.kid.some THEN L.t_jwk.kid
  ELSE IF L.pq_jwk.kid.some THEN L.pq_jwk.kid
  ELSE None

\* C6: the fragment is the caller's when given, else kid_t~kid_pq when both
\* JWKs carry a kid, else the one kid present, else the call fails with a
\* VerificationMethodConstructionError; the resolved fragment gets one '#' in
\* front when it did not start with '#' and is unchanged when it did.
C6_FragmentResolution ==
  \A p \in Procs :
    (loc[p].op = "generate_method" /\ loc[p].composite_kid # <<>>) =>
      LET L == loc[p]
          r == C6_Resolved(L)
      IN IF ~r.some
           THEN /\ GenerateFailedAt(p, {"fragment"})
                /\ L.error = "VerificationMethodConstructionError"
           ELSE /\ L.failed # "fragment"
                /\ L.fragment[1] = "#"
                /\ r.val[1] = "#" => L.fragment = r.val
                /\ r.val[1] # "#" => L.fragment = <<"#">> \o r.val
                /\ normalize_fragment(L.fragment) = L.fragment
                /\ L.method # NoMethod => L.method.id.fragment = Tail(L.fragment)

C6_Witness ==
  \E p \in Procs :
    /\ GenerateReturned(p)
    /\ loc[p].result = "ok"
    /\ ~loc[p].fragment_arg.some
    /\ loc[p].fragment = <<"#", "x", "~", "y">>

(***************************************************************************)
(* Properties of create_jws                                                *)
(***************************************************************************)
CreateJwsReturned(p) == pc[p] = "cj_ret" /\ loc[p].op = "create_jws"

IndexIn(L, name) == Min({i \in 1..Len(L.trace) : L.trace[i] = name})

\* C7: in a successful create_jws the signature of the JWS is the bytes of the
\* classical signature followed by the bytes of the post-quantum signature and
\* nothing else, and sign has completed before pq_sign is invoked.
C7_SignatureIsConcatenation ==
  \A p \in Procs :
    LET L == loc[p]
    IN /\ (CreateJwsReturned(p) /\ L.result = "ok") =>
            /\ L.signature_t \in SigBytes
            /\ L.signature_pq \in SigBytes
            /\ Len(L.jws.signature) = Len(L.signature_t) + Len(L.signature_pq)
            /\ SubSeq(L.jws.signature, 1, Len(L.signature_t)) = L.signature_t
            /\ SubSeq(L.jws.signature, Len(L.signature_t) + 1, Len(L.jws.signature))
                 = L.signature_pq
       /\ (L.op = "create_jws" /\ InTrace(L, "pq_sign")) =>
            /\ InTrace(L, "sign")
            /\ IndexIn(L, "sign") < IndexIn(L, "pq_sign")
            /\ L.signature_t \in SigBytes
       /\ (L.op = "create_jws" /\ pc[p] = "cj_sign") => L.signature_pq = <<>>

C7_Witness ==
  \E p \in Procs :
    /\ CreateJwsReturned(p)
    /\ loc[p].result = "ok"
    /\ loc[p].signature_t = <<2, 3>>
    /\ loc[p].signature_pq = <<1>>
    /\ loc[p].jws.signature = <<2, 3, 1>>

C8_Prefix12 == <<6, 11, 96, 134, 72, 1, 134, 250, 107, 80, 8, 1>>

\* C8: the signing input is the 13-byte DER OID prefix of the method's alg_id
\* (last byte 0x03 for Mldsa44, 0x0A for Mldsa65, the first 12 bytes the same)
\* followed by the 64-byte SHA-512 digest of the encoder's signing input, 77
\* bytes, and sign and pq_sign both receive this byte string.
C8_SigningInput ==
  \A p \in Procs :
    LET L == loc[p]
    IN (L.op = "create_jws" /\ L.signing_input # <<>>) =>
         /\ Len(L.signing_input) = 77
         /\ SubSeq(L.signing_input, 1, 12) = C8_Prefix12
         /\ L.method.data.alg_id = "IdMldsa44Ed25519Sha512" => L.signing_input[13] = 3
         /\ L.method.data.alg_id = "IdMldsa65Ed25519Sha512" => L.signing_input[13] = 10
         /\ L.encoder_input = [header |-> L.header, payload |-> L.payload]
         /\ Len(Sha512(L.encoder_input)) = 64
         /\ SubSeq(L.signing_input, 14, 77) = Sha512(L.encoder_input)
         /\ InTrace(L, "sign") => L.sign_call.data = L.signing_input
         /\ InTrace(L, "pq_sign") => L.pq_sign_call.data = L.signing_input

C8_Witness ==
  \E p \in Procs :
    /\ CreateJwsReturned(p)
    /\ loc[p].result = "ok"
    /\ loc[p].method.data.alg_id = "IdMldsa65Ed25519Sha512"
    /\ loc[p].signing_input[13] = 10
    /\ loc[p].sign_call.data = loc[p].pq_sign_call.data
    /\ Len(loc[p].sign_call.data) = 77

\* C9: for a method created by generate_method from handles (t_handle,
\* pq_handle) that hold no '~', create_jws finds a stored string with exactly
\* one '~', splits it into (t_handle, pq_handle), and calls sign with t_handle
\* and the classical JWK and pq_sign with pq_handle and the post-quantum JWK.
C9_PairedHandleRoundTrip ==
  \A p \in Procs :
    LET L == loc[p]
        t_handle == L.method.data.t_jwk.key
        pq_handle == L.method.data.pq_jwk.key
    IN (/\ L.op = "create_jws"
        /\ L.key_id # <<>>
        /\ ~HasTilde(t_handle)
        /\ ~HasTilde(pq_handle)) =>
         /\ Cardinality(Positions(L.key_id, "~")) = 1
         /\ L.key_id = t_handle \o <<"~">> \o pq_handle
         /\ pc[p] \in {"cj_sign", "cj_pq_sign"} =>
              L.t_key_id = t_handle /\ L.pq_key_id = pq_handle
         /\ InTrace(L, "sign") =>
              /\ L.sign_call.key_id = t_handle
              /\ L.sign_call.jwk = L.method.data.t_jwk
         /\ InTrace(L, "pq_sign") =>
              /\ L.pq_sign_call.key_id = pq_handle
              /\ L.pq_sign_call.jwk = L.method.data.pq_jwk

C9_Witness ==
  \E p \in Procs :
    /\ CreateJwsReturned(p)
    /\ loc[p].result = "ok"
    /\ loc[p].key_id = <<"a", "~", "b">>
    /\ loc[p].sign_call.key_id = <<"a">>
    /\ loc[p].pq_sign_call.key_id = <<"b">>

\* C10: create_jws returns a JWS only after sign and pq_sign both succeeded; a
\* failing sign (pq_sign then never invoked) or a failing pq_sign gives a
\* KeyStorageError and no JWS; in every outcome the document, KeyStore and
\* KeyHandleStore are as before the call.
C10_NoPartialSignature ==
  \A p \in Procs :
    LET L == loc[p]
    IN CreateJwsReturned(p) =>
         /\ L.result \in {"ok", "err"}
         /\ L.result = "ok" <=> L.jws # NoJws
         /\ L.result = "ok" =>
              /\ InTrace(L, "sign") /\ InTrace(L, "pq_sign")
              /\ L.signature_t # <<>> /\ L.signature_pq # <<>>
              /\ L.failed = "none"
         /\ L.failed \in {"sign", "pq_sign"} =>
              L.result = "err" /\ L.error = "KeyStorageError"
         /\ L.failed = "sign" => ~InTrace(L, "pq_sign")
         /\ doc = L.pre.doc
         /\ keyStore = L.pre.keyStore
         /\ keyIdStore = L.pre.keyIdStore

C10_Witness ==
  \E p \in Procs :
    /\ CreateJwsReturned(p)
    /\ loc[p].failed = "pq_sign"
    /\ loc[p].signature_t # <<>>
    /\ loc[p].jws = NoJws

\* no KeyHandleStore query and no KeyStore signing call was made in the call
NoStoreCall(L) ==
  ~InTrace(L, "get_key_id") /\ ~InTrace(L, "sign") /\ ~InTrace(L, "pq_sign")

\* C11: create_jws fails with MethodNotFound when the fragment resolves to no
\* method of the document and with NotCompositePublicKey when it resolves to a
\* method whose data is not a CompositePublicKey, in both cases before
\* KeyHandleStore is queried and before sign or pq_sign is called.
C11_ResolutionFailures ==
  \A p \in Procs :
    LET L == loc[p]
        found == {m \in L.pre.doc[p] :
                    m.id.did = DocDid(p)
                    /\ (<<"#">> \o m.id.fragment = L.query \/ m.id.fragment = L.query)}
    IN CreateJwsReturned(p) =>
         /\ found = {} =>
              /\ L.result = "err"
              /\ L.error = "MethodNotFound"
              /\ NoStoreCall(L)
              /\ L.header = NoHeader
         /\ (found # {} /\ \A m \in found : m.data.kind # "CompositePublicKey") =>
              /\ L.result = "err"
              /\ L.error = "NotCompositePublicKey"
              /\ NoStoreCall(L)
              /\ L.header = NoHeader
         /\ L.error = "MethodNotFound" => found = {}
         /\ L.error = "NotCompositePublicKey" => found # {}

C11_Witness ==
  \E p \in Procs :
    /\ CreateJwsReturned(p)
    /\ loc[p].error = "NotCompositePublicKey"
    /\ loc[p].query = <<"#", "j">>
    /\ loc[p].method = PlainMethod(p)
    /\ loc[p].trace = <<>>

HeaderBuilt(p) == loc[p].op = "create_jws" /\ loc[p].header # NoHeader

\* C12: the header's kid is options.kid when set and otherwise the method's id
\* rendered as a string (did, '#', fragment); its typ is options.typ when set
\* and otherwise "JWT"; both are always present.
C12_HeaderKidAndTyp ==
  \A p \in Procs :
    LET L == loc[p]
    IN HeaderBuilt(p) =>
         /\ L.header.kid.some
         /\ L.header.typ.some
         /\ L.options.kid.some => L.header.kid.val = L.options.kid.val
         /\ ~L.options.kid.some =>
              L.header.kid.val = <<L.method.id.did, "#">> \o L.method.id.fragment
         /\ L.options.typ.some => L.header.typ.val = L.options.typ.val
         /\ ~L.options.typ.some => L.header.typ.val = <<"JWT">>

C12_Witness ==
  \E p \in Procs :
    /\ HeaderBuilt(p)
    /\ ~loc[p].options.kid.some
    /\ ~loc[p].options.typ.some
    /\ loc[p].header.kid.val = <<"did:example:1", "#", "k">>
    /\ loc[p].header.typ.val = <<"JWT">>

IsSomeFalse(o) == o.some /\ o.val = FALSE

\* C13: the header carries b64 = false and crit = ["b64"] exactly when
\* options.b64 is Some(false); for None and Some(true) it carries neither.
C13_HeaderB64 ==
  \A p \in Procs :
    LET L == loc[p]
    IN HeaderBuilt(p) =>
         IF IsSomeFalse(L.options.b64)
           THEN /\ IsSomeFalse(L.header.b64)
                /\ L.header.crit.some
                /\ L.header.crit.val = <<"b64">>
           ELSE /\ ~L.header.b64.some
                /\ ~L.header.crit.some

C13_Witness ==
  \E p \in Procs :
    /\ HeaderBuilt(p)
    /\ IsSomeFalse(loc[p].options.b64)
    /\ IsSomeFalse(loc[p].header.b64)
    /\ loc[p].header.crit = Some(<<"b64">>)

C13_WitnessB64True ==
  \E p \in Procs :
    /\ HeaderBuilt(p)
    /\ loc[p].options.b64.some
    /\ loc[p].options.b64.val = TRUE
    /\ ~loc[p].header.b64.some

(***************************************************************************)
(* Properties of the credential and presentation JWT calls                 *)
(***************************************************************************)
JwtReturned(p) == pc[p] = "jwt_ret" /\ loc[p].op \in JwtCalls

\* C14: the credential and presentation JWT calls return an EncodingError
\* when detached_payload is true or b64 is Some(false), before serializing and
\* before any call of create_jws, KeyHandleStore or KeyStore; otherwise they
\* serialize and, when that succeeds, call create_jws and return its result.
C14_JwtPreconditions ==
  \A p \in Procs :
    LET L == loc[p]
    IN JwtReturned(p) =>
         IF L.options.detached_payload \/ IsSomeFalse(L.options.b64)
           THEN /\ L.jwt_result = "err"
                /\ L.jwt_error = "EncodingError"
                /\ L.trace = <<>>
                /\ L.payload = <<>>
                /\ L.method = NoMethod
                /\ L.jwt = NoJws
           ELSE /\ L.trace # <<>>
                /\ L.trace[1] = "serialize_jwt"
                /\ IF L.failed = "serialize_jwt"
                     THEN /\ L.jwt_result = "err"
                          /\ L.jwt_error = "ClaimsSerializationError"
                          /\ L.trace = <<"serialize_jwt">>
                     ELSE /\ Len(L.trace) >= 2
                          /\ L.trace[2] = "create_jws"
                          /\ L.payload \in {<<118, 99>>, <<118, 112>>}
                          /\ L.result \in {"ok", "err"}
                          /\ L.jwt_result = L.result
                          /\ L.jwt_error = L.error
                          /\ L.jwt = L.jws
                          /\ L.jwt_result = "ok" <=> L.jwt # NoJws

C14_Witness ==
  \E p \in Procs :
    /\ JwtReturned(p)
    /\ IsSomeFalse(loc[p].options.b64)
    /\ ~loc[p].options.detached_payload
    /\ loc[p].jwt_error = "EncodingError"
    /\ loc[p].trace = <<>>

C14_WitnessDelegated ==
  \E p \in Procs :
    /\ JwtReturned(p)
    /\ loc[p].op = "create_presentation_jwt_hybrid"
    /\ loc[p].jwt_result = "ok"
    /\ loc[p].jwt.signature # <<>>

(***************************************************************************)
(* JptCredentialValidator: validate, validate_extended, verify_proof       *)
(***************************************************************************)
signer_vars == <<doc, keyStore, keyIdStore, pc, loc, calls>>

NoVError == VError("none", "none", "none")

ProofFailureErrors_Empty(err) == <<>>

\* CompoundCredentialValidationError { validation_errors: [err].into() }
ProofFailureErrors(err) == <<err>>

\* DIDUrl::parse of a string did '#' fragment
DIDUrlParse(s) ==
  IF Len(s) >= 3 /\ s[2] = "#"
    THEN [some |-> TRUE, val |-> [did |-> s[1], fragment |-> SubSeq(s, 3, Len(s))]]
    ELSE NoneId

KidMissing ==
  VError("MethodDataLookupError", "could not extract kid from protected header", "Issuer")

KidUnparsable == VError("MethodDataLookupError", "could not parse kid as a DID Url", "Issuer")

ResolveMethodId_KidFirst(method_id, kid) ==
  IF ~kid.some
    THEN [ok |-> FALSE, id |-> NoId, err |-> KidMissing, steps |-> <<"kid">>]
    ELSE IF DIDUrlParse(kid.val).some
      THEN [ok |-> TRUE, id |-> DIDUrlParse(kid.val).val, err |-> NoVError,
            steps |-> <<"kid", "parse_kid">>]
      ELSE [ok |-> FALSE, id |-> NoId, err |-> KidUnparsable, steps |-> <<"kid", "parse_kid">>]

\* let method_id: DIDUrl = match &options.method_id { Some(..) => .., None => kid .. }
ResolveMethodId(method_id, kid) ==
  IF method_id.some
    THEN [ok |-> TRUE, id |-> method_id.val, err |-> NoVError, steps |-> <<>>]
    ELSE IF ~kid.some
      THEN [ok |-> FALSE, id |-> NoId, err |-> KidMissing, steps |-> <<"kid">>]
      ELSE IF DIDUrlParse(kid.val).some
        THEN [ok |-> TRUE, id |-> DIDUrlParse(kid.val).val, err |-> NoVError,
              steps |-> <<"kid", "parse_kid">>]
        ELSE [ok |-> FALSE, id |-> NoId, err |-> KidUnparsable,
              steps |-> <<"kid", "parse_kid">>]

FindIssuer_First(issuers, method_id) ==
  IF Len(issuers) = 0 THEN [some |-> FALSE, val |-> NoVDoc]
  ELSE [some |-> TRUE, val |-> issuers[1]]

\* trusted_issuers.iter().find(|issuer_doc| issuer_doc.id() == method_id.did())
FindIssuer(issuers, method_id) ==
  LET hits == {i \in 1..Len(issuers) : issuers[i].id = method_id.did}
  IN IF hits = {} THEN [some |-> FALSE, val |-> NoVDoc]
     ELSE [some |-> TRUE, val |-> issuers[Min(hits)]]

\* issuer.resolve_method(&method_id, scope).and_then(public_key_jwk).and_then(try_into)
PublicKeyMethods(issuer, method_id, scope) ==
  {m \in issuer.methods :
     /\ m.id = method_id
     /\ (scope.some => scope.val \in m.scopes)
     /\ m.jwk}

IssuerMatches_Controller(issuer_id, method_id) == issuer_id = jpt.method.controller

\* if &issuer_id != method_id.did() { return Err(IdentifierMismatch) }
IssuerMatches(issuer_id, method_id) == issuer_id = method_id.did

ValidationUnits_ExpiryFirst(revocation) ==
  IF revocation
    THEN <<"expiry_date", "issuance_date", "structure", "subject_holder", "status">>
    ELSE <<"expiry_date", "issuance_date", "structure", "subject_holder">>

ValidationUnits_NoStructure(revocation) ==
  IF revocation
    THEN <<"issuance_date", "expiry_date", "subject_holder", "status">>
    ELSE <<"issuance_date", "expiry_date", "subject_holder">>

\* issuance_date.chain(expiry_date).chain(structure).chain(subject_holder),
\* and .chain(revocation) with the revocation-bitmap feature
ValidationUnits(revocation) ==
  IF revocation THEN AllUnits ELSE SubSeq(AllUnits, 1, 4)

UnitError(unit) ==
  CASE unit = "issuance_date" -> VError("IssuanceDate", "none", "none")
    [] unit = "expiry_date" -> VError("ExpirationDate", "none", "none")
    [] unit = "structure" -> VError("CredentialStructure", "none", "none")
    [] unit = "subject_holder" -> VError("SubjectHolderRelationship", "none", "none")
    [] unit = "status" -> VError("Revoked", "none", "none")

\* the closure of one unit: Ok, or the unit's error
UnitResult(unit, credential, options) ==
  IF unit = "subject_holder" /\ ~options.subject_holder_relationship
    THEN [ok |-> TRUE, err |-> NoVError]
    ELSE IF unit \in credential.failing
      THEN [ok |-> FALSE, err |-> UnitError(unit)]
      ELSE [ok |-> TRUE, err |-> NoVError]

Collecting_Eager(fail_fast, errors) == TRUE

Collecting_TakeOne(fail_fast, errors) == Len(errors) < 1

\* FirstError => iter.take(1).collect(), AllErrors => iter.collect()
Collecting(fail_fast, errors) == fail_fast = "AllErrors" \/ Len(errors) < 1

\* verify_proof returns Err(err) at step `failed`
ProofFail(v, err, failed) ==
  jpt' = [v EXCEPT !.pc = "done", !.result = "err", !.failed = failed,
                   !.errors = ProofFailureErrors(err)]

ValidatorInputs(entry, issuers) ==
  \E fail_fast \in FailFasts, revocation \in BOOLEAN, method_id \in MethodIdOptions,
     method_scope \in MethodScopeOptions, shr \in BOOLEAN :
    jpt' = [NoVal EXCEPT !.pc = "decode", !.entry = entry, !.fail_fast = fail_fast,
                         !.revocation = revocation, !.issuers = issuers,
                         !.options = [method_id |-> method_id, method_scope |-> method_scope,
                                      subject_holder_relationship |-> shr]]

\* validate: one issuer, handed on as a slice of length one
StartValidate ==
  /\ jpt.pc = "idle"
  /\ \E issuer \in IssuerDocs : ValidatorInputs("validate", <<issuer>>)
  /\ UNCHANGED signer_vars

StartValidateExtended ==
  /\ jpt.pc = "idle"
  /\ \E issuers \in IssuerLists : ValidatorInputs("validate_extended", issuers)
  /\ UNCHANGED signer_vars

\* JwpIssuedVerifier::decode
DecodeStep ==
  /\ jpt.pc = "decode"
  /\ LET v == [jpt EXCEPT !.steps = Append(@, "decode")]
     IN \/ ProofFail(v, VError("JwpDecodingError", "none", "none"), "decode")
        \/ \E kid \in HeaderKids : jpt' = [v EXCEPT !.pc = "method_id", !.kid = kid]
  /\ UNCHANGED signer_vars

MethodIdStep ==
  /\ jpt.pc = "method_id"
  /\ LET r == ResolveMethodId(jpt.options.method_id, jpt.kid)
         v == [jpt EXCEPT !.steps = @ \o r.steps]
     IN IF r.ok
          THEN jpt' = [v EXCEPT !.pc = "issuer", !.method_id = r.id]
          ELSE ProofFail(v, r.err, "method_id")
  /\ UNCHANGED signer_vars

IssuerStep ==
  /\ jpt.pc = "issuer"
  /\ LET f == FindIssuer(jpt.issuers, jpt.method_id)
         v == [jpt EXCEPT !.steps = Append(@, "find_issuer")]
     IN IF f.some
          THEN jpt' = [v EXCEPT !.pc = "public_key", !.issuer = f.val]
          ELSE ProofFail(v, VError("DocumentMismatch", "none", "Issuer"), "issuer")
  /\ UNCHANGED signer_vars

PublicKeyStep ==
  /\ jpt.pc = "public_key"
  /\ LET ms == PublicKeyMethods(jpt.issuer, jpt.method_id, jpt.options.method_scope)
         v == [jpt EXCEPT !.steps = Append(@, "resolve_method")]
     IN IF ms # {}
          THEN jpt' = [v EXCEPT !.pc = "verify", !.method = CHOOSE m \in ms : TRUE]
          ELSE ProofFail(v, VError("MethodDataLookupError",
                                   "could not extract JWK from a method identified by kid",
                                   "Issuer"), "public_key")
  /\ UNCHANGED signer_vars

\* verify_decoded_jwp: proof verification, then claims into a Credential
VerifyStep ==
  /\ jpt.pc = "verify"
  /\ LET v == [jpt EXCEPT !.steps = Append(@, "verify")]
         w == [v EXCEPT !.steps = Append(@, "deserialize")]
     IN \/ ProofFail(v, VError("JwpProofVerificationError", "none", "none"), "verify")
        \/ ProofFail(w, VError("CredentialStructure", "none", "none"), "deserialize")
        \/ \E issuer \in CredentialIssuers, failing \in SUBSET UnitNames :
             jpt' = [w EXCEPT !.pc = "issuer_check",
                              !.credential = [issuer |-> issuer, failing |-> failing]]
  /\ UNCHANGED signer_vars

\* extract_issuer and the comparison with the DID of the method id
IssuerCheckStep ==
  /\ jpt.pc = "issuer_check"
  /\ LET v == [jpt EXCEPT !.steps = Append(@, "extract_issuer")]
     IN IF jpt.credential.issuer = "invalid"
          THEN ProofFail(v, VError("SignerUrl", "none", "Issuer"), "issuer_check")
          ELSE IF ~IssuerMatches(jpt.credential.issuer, jpt.method_id)
            THEN ProofFail(v, VError("IdentifierMismatch", "none", "Issuer"), "issuer_check")
            ELSE jpt' = [v EXCEPT !.pc = "units"]
  /\ UNCHANGED signer_vars

UnitsLeft(v) ==
  /\ Len(v.evaluated) < Len(ValidationUnits(v.revocation))
  /\ Collecting(v.fail_fast, v.errors)

\* the collector pulls the next unit of the chain and keeps its error
UnitStep ==
  /\ jpt.pc = "units"
  /\ UnitsLeft(jpt)
  /\ LET unit == ValidationUnits(jpt.revocation)[Len(jpt.evaluated) + 1]
         r == UnitResult(unit, jpt.credential, jpt.options)
     IN jpt' = [jpt EXCEPT !.evaluated = Append(@, unit),
                           !.errors = IF r.ok THEN @ ELSE Append(@, r.err)]
  /\ UNCHANGED signer_vars

\* if validation_errors.is_empty() { Ok(credential_token) } else { Err(..) }
FinishStep ==
  /\ jpt.pc = "units"
  /\ ~UnitsLeft(jpt)
  /\ jpt' = [jpt EXCEPT !.pc = "done",
                        !.result = IF jpt.errors = <<>> THEN "ok" ELSE "err"]
  /\ UNCHANGED signer_vars

\* the caller takes the result of the validation
ReturnValidate ==
  /\ jpt.pc = "done"
  /\ jpt' = NoVal
  /\ UNCHANGED signer_vars

ValidatorNext ==
  \/ StartValidate \/ StartValidateExtended \/ DecodeStep \/ MethodIdStep \/ IssuerStep
  \/ PublicKeyStep \/ VerifyStep \/ IssuerCheckStep \/ UnitStep \/ FinishStep
  \/ ReturnValidate

SpecValidator == Init /\ [][ValidatorNext]_vars

(***************************************************************************)
(* Properties of the validator                                             *)
(***************************************************************************)
ValidateDone == jpt.pc = "done"

StepDone(name) == \E i \in 1..Len(jpt.steps) : jpt.steps[i] = name

PositionIn(seq, x) == Min({i \in 1..Len(seq) : seq[i] = x})

ProofFailed == jpt.failed # "none"

\* the error kinds verify_proof can return at each of its steps
ProofErrorKinds(step) ==
  CASE step = "decode" -> {"JwpDecodingError"}
    [] step = "method_id" -> {"MethodDataLookupError"}
    [] step = "issuer" -> {"DocumentMismatch"}
    [] step = "public_key" -> {"MethodDataLookupError"}
    [] step = "verify" -> {"JwpProofVerificationError"}
    [] step = "deserialize" -> {"CredentialStructure"}
    [] step = "issuer_check" -> {"SignerUrl", "IdentifierMismatch"}
    [] OTHER -> {}

\* C15: when the proof phase (decoding, method lookup, key extraction, proof
\* verification, deserialization, issuer comparison) fails, the validation
\* returns a compound error holding exactly that one error and no validation
\* unit has been evaluated, under FirstError and under AllErrors alike.
C15_ProofFailureIsSingleError ==
  (ValidateDone /\ ProofFailed) =>
    /\ jpt.result = "err"
    /\ Len(jpt.errors) = 1
    /\ jpt.errors[1].kind \in ProofErrorKinds(jpt.failed)
    /\ jpt.evaluated = <<>>

C15_Witness ==
  /\ ValidateDone
  /\ jpt.failed = "issuer_check"
  /\ jpt.fail_fast = "AllErrors"
  /\ jpt.credential.failing # {}
  /\ jpt.errors = <<VError("IdentifierMismatch", "none", "Issuer")>>

C15_WitnessFirstError ==
  /\ ValidateDone
  /\ jpt.failed = "decode"
  /\ jpt.fail_fast = "FirstError"
  /\ Len(jpt.errors) = 1

\* the units that fail on their own for the credential and options of the call
FailingUnits ==
  {u \in jpt.credential.failing :
     /\ u = "subject_holder" => jpt.options.subject_holder_relationship
     /\ u = "status" => jpt.revocation}

\* the order of the units as the specification states it
StatedOrder == <<"issuance_date", "expiry_date", "structure", "subject_holder", "status">>

StatedUnits == IF jpt.revocation THEN StatedOrder ELSE SubSeq(StatedOrder, 1, 4)

FirstFailingUnit == StatedOrder[Min({i \in 1..Len(StatedOrder) : StatedOrder[i] \in FailingUnits})]

StatedKind(unit) ==
  CASE unit = "issuance_date" -> "IssuanceDate"
    [] unit = "expiry_date" -> "ExpirationDate"
    [] unit = "structure" -> "CredentialStructure"
    [] unit = "subject_holder" -> "SubjectHolderRelationship"
    [] unit = "status" -> "Revoked"

UnitsFinished == ValidateDone /\ ~ProofFailed

\* C16: under FirstError, when the proof phase succeeded and some unit fails,
\* the compound error holds exactly one error, the one of the first failing
\* unit in the order issuance date, expiry date, structure, subject-holder
\* relationship, status; no unit after it has been evaluated.
C16_FirstErrorIsFirstFailingUnit ==
  (UnitsFinished /\ jpt.fail_fast = "FirstError" /\ FailingUnits # {}) =>
    /\ jpt.result = "err"
    /\ Len(jpt.errors) = 1
    /\ jpt.errors[1].kind = StatedKind(FirstFailingUnit)
    /\ jpt.evaluated = SubSeq(StatedOrder, 1, PositionIn(StatedOrder, FirstFailingUnit))

C16_Witness ==
  /\ UnitsFinished
  /\ jpt.fail_fast = "FirstError"
  /\ FailingUnits = {"expiry_date", "structure", "status"}
  /\ jpt.errors = <<VError("ExpirationDate", "none", "none")>>

\* C17: under AllErrors, when the proof phase succeeded, every unit has been
\* evaluated exactly once, the errors are exactly those of the units that
\* fail on their own, and the credential is returned only when there is none.
C17_AllErrorsCollectsEveryFailure ==
  (UnitsFinished /\ jpt.fail_fast = "AllErrors") =>
    /\ jpt.evaluated = StatedUnits
    /\ {jpt.errors[i].kind : i \in 1..Len(jpt.errors)} = {StatedKind(u) : u \in FailingUnits}
    /\ Len(jpt.errors) = Cardinality(FailingUnits)
    /\ jpt.result = "ok" <=> FailingUnits = {}

C17_Witness ==
  /\ UnitsFinished
  /\ jpt.fail_fast = "AllErrors"
  /\ Len(jpt.errors) = 3
  /\ Len(jpt.evaluated) = 5
  /\ jpt.result = "err"

C17_WitnessOk ==
  /\ UnitsFinished
  /\ jpt.fail_fast = "AllErrors"
  /\ jpt.result = "ok"
  /\ jpt.credential.failing = {"subject_holder", "status"}

\* C18: an Ok result means that every unit has been evaluated and returned
\* Ok, and a call succeeds under FirstError exactly when it succeeds under
\* AllErrors: in both modes success is the absence of a failing unit.
C18_OkMeansAllUnitsOk ==
  /\ (ValidateDone /\ jpt.result = "ok") =>
       /\ ~ProofFailed
       /\ jpt.evaluated = StatedUnits
       /\ FailingUnits = {}
       /\ jpt.errors = <<>>
  /\ UnitsFinished => (jpt.result = "ok" <=> FailingUnits = {})

C18_Witness ==
  /\ ValidateDone
  /\ jpt.result = "ok"
  /\ jpt.fail_fast = "FirstError"
  /\ jpt.revocation
  /\ jpt.evaluated = StatedOrder

HasIssuerFor(did) == \E i \in 1..Len(jpt.issuers) : jpt.issuers[i].id = did

MethodIdKnown == StepDone("find_issuer")

\* C19: when no trusted issuer document has the DID of the method id, the
\* validation fails with DocumentMismatch(Issuer), and neither the method
\* lookup, nor the JWK extraction, nor the proof verification has happened.
C19_UnknownIssuerIsDocumentMismatch ==
  /\ (ValidateDone /\ MethodIdKnown /\ ~HasIssuerFor(jpt.method_id.did)) =>
       /\ jpt.result = "err"
       /\ jpt.errors = <<VError("DocumentMismatch", "none", "Issuer")>>
       /\ ~StepDone("resolve_method")
       /\ ~StepDone("verify")
  /\ (StepDone("resolve_method") \/ StepDone("verify")) =>
       /\ HasIssuerFor(jpt.method_id.did)
       /\ jpt.issuer.id = jpt.method_id.did

C19_Witness ==
  /\ ValidateDone
  /\ MethodIdKnown
  /\ Len(jpt.issuers) >= 1
  /\ ~HasIssuerFor(jpt.method_id.did)
  /\ jpt.errors = <<VError("DocumentMismatch", "none", "Issuer")>>

\* the method id step of verify_proof has run: decoding succeeded before it
PastMethodId == jpt.pc \notin {"idle", "decode", "method_id"} /\ jpt.failed # "decode"

\* C20: a method id given in the options is the one used and the kid of the
\* header is not consulted; only without it the kid is read and parsed, and a
\* header without kid fails with MethodDataLookupError, message "could not
\* extract kid from protected header", signer context Issuer.
C20_MethodIdFromOptionsFirst ==
  /\ (PastMethodId /\ jpt.options.method_id.some) =>
       /\ ~StepDone("kid")
       /\ jpt.failed # "method_id"
       /\ (MethodIdKnown => jpt.method_id = jpt.options.method_id.val)
  /\ (PastMethodId /\ ~jpt.options.method_id.some) =>
       /\ StepDone("kid")
       /\ ~jpt.kid.some =>
            /\ jpt.failed = "method_id"
            /\ jpt.errors = <<VError("MethodDataLookupError",
                                     "could not extract kid from protected header",
                                     "Issuer")>>
       /\ MethodIdKnown =>
            /\ jpt.kid.some
            /\ jpt.method_id = [did |-> jpt.kid.val[1],
                                fragment |-> SubSeq(jpt.kid.val, 3, Len(jpt.kid.val))]

C20_Witness ==
  /\ ValidateDone
  /\ jpt.options.method_id.some
  /\ ~jpt.kid.some
  /\ jpt.result = "ok"

C20_WitnessKidMissing ==
  /\ ValidateDone
  /\ ~jpt.options.method_id.some
  /\ ~jpt.kid.some
  /\ jpt.failed = "method_id"

\* the issuer comparison of verify_proof has run on an extracted issuer
IssuerCompared == StepDone("extract_issuer") /\ jpt.credential.issuer # "invalid"

IssuerRejected ==
  /\ jpt.failed = "issuer_check"
  /\ jpt.result = "err"
  /\ jpt.errors = <<VError("IdentifierMismatch", "none", "Issuer")>>

IssuerPassed == jpt.failed = "none" /\ jpt.pc \in {"units", "done"}

\* C21 as stated: after the proof verifies, a credential whose issuer differs
\* from the controller of the verifying method is rejected with
\* IdentifierMismatch(Issuer), and one whose issuer equals that controller
\* passes, also when the controller differs from the DID of the method id.
C21_IssuerIsControllerOriginal ==
  IssuerCompared =>
    /\ jpt.credential.issuer # jpt.method.controller => IssuerRejected
    /\ jpt.credential.issuer = jpt.method.controller => IssuerPassed

\* C21 amended: after the proof verifies, the issuer of the credential is
\* compared with the DID of the method id: a credential whose issuer differs
\* from it is rejected with IdentifierMismatch(Issuer) and one whose issuer
\* equals it passes, whatever the controller of the method is.
C21_IssuerIsMethodDid ==
  IssuerCompared =>
    /\ jpt.credential.issuer # jpt.method_id.did => IssuerRejected
    /\ jpt.credential.issuer = jpt.method_id.did => IssuerPassed

C21_Witness ==
  /\ IssuerCompared
  /\ jpt.method.controller # jpt.method_id.did
  /\ jpt.credential.issuer = jpt.method_id.did
  /\ IssuerPassed
  /\ jpt.result = "ok"

C21_WitnessRejected ==
  /\ IssuerCompared
  /\ jpt.method.controller # jpt.method_id.did
  /\ jpt.credential.issuer = jpt.method.controller
  /\ IssuerRejected

\* caller p is on the rollback path of a failed insert_key_id
KeyIdRollback(p) == loc[p].op = "generate_method" /\ loc[p].failed = "insert_key_id"

MethodRemoved(p) == \A m \in doc[p] : m.id # loc[p].method.id

\* the method is removed before any key is deleted
MethodRemovedFirst(p) ==
  /\ KeyIdRollback(p) => InTrace(loc[p], "remove_method") /\ MethodRemoved(p)
  /\ (KeyIdRollback(p) /\ pc[p] = "gm_undo_t") =>
       /\ loc[p].t_key_id \in keyStore
       /\ loc[p].pq_key_id \in keyStore
       /\ ~InTrace(loc[p], "delete_t")
       /\ ~InTrace(loc[p], "delete_pq")

\* C22 as stated: after a failed insert_key_id the method is removed from
\* the document first and the keys are deleted afterwards, the post-quantum
\* key before the classical key: the classical key is never gone while the
\* post-quantum key is still to be deleted.
C22_RollbackOrderOriginal ==
  \A p \in SerialProcs :
    /\ MethodRemovedFirst(p)
    /\ (KeyIdRollback(p) /\ ~loc[p].undo_failed /\ loc[p].t_key_id \notin keyStore) =>
         loc[p].pq_key_id \notin keyStore

\* C22 amended: after a failed insert_key_id the method is removed from the
\* document first and the keys are deleted afterwards, in the order of their
\* generation: the classical key is deleted before the post-quantum key.
C22_RollbackOrder ==
  \A p \in SerialProcs :
    /\ MethodRemovedFirst(p)
    /\ (KeyIdRollback(p) /\ pc[p] = "gm_undo_pq") =>
         /\ InTrace(loc[p], "delete_t")
         /\ ~InTrace(loc[p], "delete_pq")
         /\ loc[p].pq_key_id \in keyStore
         /\ ~loc[p].undo_failed => loc[p].t_key_id \notin keyStore
    /\ (KeyIdRollback(p) /\ pc[p] = "gm_ret") =>
         /\ IndexIn(loc[p], "remove_method") < IndexIn(loc[p], "delete_t")
         /\ IndexIn(loc[p], "delete_t") < IndexIn(loc[p], "delete_pq")
         /\ ~loc[p].undo_failed =>
              loc[p].t_key_id \notin keyStore /\ loc[p].pq_key_id \notin keyStore

C22_Witness ==
  /\ KeyIdRollback(1)
  /\ pc[1] = "gm_undo_pq"
  /\ ~loc[1].undo_failed
  /\ loc[1].t_key_id \notin keyStore
  /\ loc[1].pq_key_id \in keyStore
  /\ MethodRemoved(1)

(***************************************************************************)
(* Two callers, each with its own document, sharing one Storage: their     *)
(* generate_method calls interleave at the await points                    *)
(***************************************************************************)
MaxSharedCalls == 2

\* a caller starts generate_method while the other caller may be in a call
StartShared(p) ==
  /\ pc[p] = "idle"
  /\ calls < MaxSharedCalls
  /\ \E fragment \in {None, Some(<<"k">>)} :
       loc' = [loc EXCEPT ![p] = [NoLoc EXCEPT !.op = "generate_method",
                                               !.alg_id = "IdMldsa44Ed25519Sha512",
                                               !.fragment_arg = fragment,
                                               !.scope = "VerificationMethod"]]
  /\ pc' = [pc EXCEPT ![p] = "gm_generate"]
  /\ calls' = calls + 1
  /\ UNCHANGED <<doc, keyStore, keyIdStore, jpt>>

ConcurrentNext == \E p \in Procs : StartShared(p) \/ GenerateMethod(p)

SpecConcurrent == Init /\ [][ConcurrentNext]_vars

InGenerate(p) == loc[p].op = "generate_method"

MethodBuilt(p) == loc[p].method # NoMethod

\* C23: at every point of a generate_method call, the suspension points
\* included, KeyHandleStore holds the mapping of the new method's digest only
\* if the method is in the document: insert_key_id comes after a successful
\* insert_method, and on the rollback path the mapping is absent once the
\* method has been removed.
C23_HandleOnlyWithMethod ==
  \A p \in Procs :
    InGenerate(p) =>
      /\ (MethodBuilt(p) /\ has_key_id(keyIdStore, MethodDigest(loc[p].method))) =>
           loc[p].method \in doc[p]
      /\ InTrace(loc[p], "insert_key_id") =>
           /\ InTrace(loc[p], "insert_method")
           /\ loc[p].failed # "insert_method"
           /\ IndexIn(loc[p], "insert_method") < IndexIn(loc[p], "insert_key_id")
      /\ (KeyIdRollback(p) /\ MethodRemoved(p)) =>
           ~has_key_id(keyIdStore, loc[p].method_digest)

\* one caller is suspended between insert_method and insert_key_id while the
\* other caller rolls a failed insert_key_id back
C23_Witness ==
  /\ pc[1] = "gm_insert_key_id"
  /\ loc[1].method \in doc[1]
  /\ ~has_key_id(keyIdStore, MethodDigest(loc[1].method))
  /\ KeyIdRollback(2)
  /\ pc[2] = "gm_undo_t"
  /\ MethodRemoved(2)

C23_WitnessMapped ==
  /\ pc[1] = "gm_ret"
  /\ loc[1].result = "ok"
  /\ has_key_id(keyIdStore, loc[1].method_digest)
  /\ loc[1].method \in doc[1]
  /\ pc[2] = "gm_generate_pq"

Succeeded(q) == InGenerate(q) /\ pc[q] = "gm_ret" /\ loc[q].result = "ok"

\* a method of a document that KeyHandleStore knows: its handle is the pair
\* of its own two key handles, and both keys are stored
MethodUsable(m) ==
  has_key_id(keyIdStore, MethodDigest(m)) =>
    /\ get_key_id(keyIdStore, MethodDigest(m)) = m.data.t_jwk.key \o <<"~">> \o m.data.pq_jwk.key
    /\ m.data.t_jwk.key \in keyStore
    /\ m.data.pq_jwk.key \in keyStore

\* C25: when generate_method calls on two documents share one Storage and
\* interleave, the rollback of a failing call deletes only that call's keys
\* and removes only that call's method: a call that succeeds has its method
\* in its document, its digest mapped to its own t_handle~pq_handle and both
\* keys in KeyStore, and so it stays whatever the other call does.
C25_RollbackIsOwn ==
  \A q \in Procs :
    /\ Succeeded(q) =>
         /\ loc[q].method \in doc[q]
         /\ has_key_id(keyIdStore, loc[q].method_digest)
         /\ get_key_id(keyIdStore, loc[q].method_digest)
              = loc[q].t_key_id \o <<"~">> \o loc[q].pq_key_id
         /\ loc[q].t_key_id \in keyStore
         /\ loc[q].pq_key_id \in keyStore
    /\ PlainMethod(q) \in doc[q]
    /\ \A m \in doc[q] :
         /\ m.id.did = DocDid(q)
         /\ m.type = "CompositeSignaturePublicKey" => MethodUsable(m)

\* caller 2 has succeeded while caller 1, in a call at the same time, has
\* rolled back a failed insert_key_id and deleted both of its keys
C25_Witness ==
  /\ Succeeded(2)
  /\ KeyIdRollback(1)
  /\ pc[1] = "gm_ret"
  /\ ~loc[1].undo_failed
  /\ loc[1].t_key_id \notin keyStore
  /\ loc[1].pq_key_id \notin keyStore
  /\ loc[2].method \in doc[2]
  /\ keyStore = {loc[2].t_key_id, loc[2].pq_key_id}

FirstErrorRun == jpt.fail_fast = "FirstError" /\ jpt.pc \in {"units", "done"} /\ ~ProofFailed

\* C24: under FirstError the units are evaluated one by one in the fixed
\* order; every unit before the first failing one is evaluated exactly once
\* and no unit after it is evaluated at all, the status unit in particular
\* is not run once an earlier unit has failed.
C24_FirstErrorIsLazy ==
  FirstErrorRun =>
    /\ jpt.evaluated = SubSeq(StatedUnits, 1, Len(jpt.evaluated))
    /\ \A i \in 1..Len(jpt.evaluated) :
         jpt.evaluated[i] \in FailingUnits => i = Len(jpt.evaluated)
    /\ (\E u \in FailingUnits : u # "status") => ~(\E i \in 1..Len(jpt.evaluated) : jpt.evaluated[i] = "status")
    /\ (ValidateDone /\ FailingUnits # {}) =>
         Len(jpt.evaluated) = PositionIn(StatedOrder, FirstFailingUnit)
    /\ (ValidateDone /\ FailingUnits = {}) => jpt.evaluated = StatedUnits

\* the structure unit failed after two units that passed: the units after it,
\* failing ones among them, have not been evaluated
C24_Witness ==
  /\ FirstErrorRun
  /\ ValidateDone
  /\ jpt.revocation
  /\ jpt.options.subject_holder_relationship
  /\ FailingUnits = {"structure", "subject_holder", "status"}
  /\ jpt.evaluated = <<"issuance_date", "expiry_date", "structure">>

====
